---- MODULE Spec2Model ----
(***************************************************************************)
(* Model of generate_xml.py: the HeFESTo parameter-file parser, the phase  *)
(* interaction-file parser, the formula formatter and the XML database     *)
(* builder.  Python indices are 0-based, TLA+ sequences 1-based: Python's  *)
(* lines[i] is At(lines, i) below.                                         *)
(***************************************************************************)
EXTENDS Integers, Sequences, FiniteSets, TLC

VARIABLES
    x_lines,        \* PhaseInteraction.parse_file: lines (each line its whitespace-split tokens)
    endmembers,     \* PhaseInteraction.endmembers
    interactions,   \* PhaseInteraction.interactions (list of triples)
    volume_line,    \* parse_file local volume_line
    x_i,            \* parse_file loop variable i
    x_pc,           \* position in PhaseInteraction.parse_file
    p_lines,        \* HeFESToParameter.parse_file: lines (each line its whitespace-split tokens)
    p_attrs,        \* the attributes parse_file has set on self: formula_raw, name
    parameters,     \* HeFESToParameter.parameters
    p_pc,           \* position in HeFESToParameter.parse_file
    f_raw,          \* format_formula: formula_raw, a sequence of characters
    f_sites,        \* the sites f_raw was written from, when it is site notation
    f_notation,     \* whether f_raw is site notation (f_sites holds its sites)
    formula,        \* format_formula local formula
    f_i,            \* format_formula local i
    result,         \* format_formula local result (list of strings)
    f_ret,          \* the string format_formula returns
    f_pc,           \* position in format_formula
    param_dir,      \* create_xml_database: the files of param_dir, name -> lines
    phase_dir,      \* the files of phase_dir, name -> lines, and whether it exists
    minerals,       \* create_xml_database local minerals
    phases,         \* create_xml_database local phases
    root,           \* create_xml_database local root
    b_group,        \* index of the next entry of phase_groups (from 1)
    b_alone,        \* index of the next entry of standalone (from 1)
    b_raised,       \* the mineral id whose add_mineral_phase raised, "" when none
    output_file,    \* the documents written to output_file, in order
    b_pc            \* position in create_xml_database

xvars == <<x_lines, endmembers, interactions, volume_line, x_i, x_pc>>

pvars == <<p_lines, p_attrs, parameters, p_pc>>

fvars == <<f_raw, f_sites, f_notation, formula, f_i, result, f_ret, f_pc>>

bvars == <<param_dir, phase_dir, minerals, phases, root, b_group, b_alone, b_raised,
           output_file, b_pc>>

vars == <<xvars, pvars, fvars, bvars>>

\* the variables of a component that a specification does not run
XIdle ==
    /\ x_lines = <<>>
    /\ endmembers = <<>>
    /\ interactions = <<>>
    /\ volume_line = -1
    /\ x_i = 0
    /\ x_pc = "idle"

PIdle ==
    /\ p_lines = <<>>
    /\ p_attrs = <<>>
    /\ parameters = <<>>
    /\ p_pc = "idle"

FIdle ==
    /\ f_raw = <<>>
    /\ f_sites = <<>>
    /\ f_notation = FALSE
    /\ formula = <<>>
    /\ f_i = 0
    /\ result = <<>>
    /\ f_ret = <<>>
    /\ f_pc = "idle"

BIdle ==
    /\ param_dir = <<>>
    /\ phase_dir = <<>>
    /\ minerals = <<>>
    /\ phases = <<>>
    /\ root = <<>>
    /\ b_group = 0
    /\ b_alone = 0
    /\ b_raised = ""
    /\ output_file = <<>>
    /\ b_pc = "idle"

(***************************************************************************)
(* Generic helpers                                                         *)
(***************************************************************************)
At(s, k) == s[k + 1]

Min(a, b) == IF a < b THEN a ELSE b

SeqsUpTo(S, k) == UNION {[1..m -> S] : m \in 0..k}

(***************************************************************************)
(* float(): the tokens of the model and the values Python parses them to.  *)
(* Every other token raises ValueError.                                    *)
(***************************************************************************)
IsFloat(tok) == tok \in {"0.0", "-0.0", "1.0", "2.0", "3.0", "5.0", "7.0", "800.0", "-800.0"}

FloatOf(tok) ==
    CASE tok = "0.0" -> 0
      [] tok = "-0.0" -> 0
      [] tok = "1.0" -> 1
      [] tok = "2.0" -> 2
      [] tok = "3.0" -> 3
      [] tok = "5.0" -> 5
      [] tok = "7.0" -> 7
      [] tok = "800.0" -> 800
      [] tok = "-800.0" -> 0 - 800

(***************************************************************************)
(* PhaseInteraction.parse_file                                             *)
(***************************************************************************)
\* 'Volume' in line: a substring test on the raw line
HasVolume(line) == \E k \in 1..Len(line) : line[k] \in {"Volume", "Volume:"}

RECURSIVE FirstVolume(_, _)
FirstVolume(lines, idx) ==
    IF idx >= Len(lines) THEN -1
    ELSE IF HasVolume(At(lines, idx)) THEN idx
    ELSE FirstVolume(lines, idx + 1)

FindVolumeLine(lines) ==
    LET found == FirstVolume(lines, 0)
    IN  IF found = -1 THEN Len(lines) ELSE found

\* line 148: first column read in the row of endmember row_idx
UpperStartDiag(row_idx) == row_idx

UpperStart(row_idx) == row_idx + 1

\* line 151: W != 0.0
KeepWAll(W) == TRUE

KeepW(W) == W # 0

\* line 142: range(1, min(n + 1, volume_line)) stops before this row
RowLimitNoCut(n, vl) == n + 1

RowLimit(n, vl) == Min(n + 1, vl)

\* lines 148-158: columns j .. min(n, len(values)) - 1 of one row
RECURSIVE RowInteractions(_, _, _, _)
RowInteractions(em, values, row_idx, j) ==
    IF j >= Min(Len(em), Len(values)) THEN <<>>
    ELSE LET tok == At(values, j)
             here == IF IsFloat(tok) /\ KeepW(FloatOf(tok))
                     THEN << <<At(em, row_idx), At(em, j), FloatOf(tok)>> >>
                     ELSE <<>>
         IN  here \o RowInteractions(em, values, row_idx, j + 1)

\* lines 143-158: one iteration of the loop over i
RowStep(lines, em, i) ==
    IF i < Len(lines)
    THEN RowInteractions(em, At(lines, i), i - 1, UpperStart(i - 1))
    ELSE <<>>

\* endmember lines: the first k names, the same with the last name repeating
\* the first, and a list whose first name contains the marker
Names == <<"a", "b", "c", "d", "e">>

MaxN == 3

EndmemberLines ==
    {SubSeq(Names, 1, k) : k \in 0..MaxN}
        \cup {[SubSeq(Names, 1, k) EXCEPT ![k] = "a"] : k \in 2..MaxN}
        \cup {<<"Volume", "a">>}

\* matrix rows: up to MaxCols tokens, cycling through a zero, a nonzero and
\* an unparsable token in either direction from any start, or constant
WTokens == <<"0.0", "5.0", "x">>

MaxCols == 3

MaxRows == 2

CycRow(L, off, dir) == [k \in 1..L |-> WTokens[((off + dir * k) % 3) + 1]]

MatrixRows ==
    {CycRow(L, off, dir) : L \in 0..MaxCols, off \in 0..2, dir \in 0..2}
        \cup {<<"Volume">>, <<"Volume", "5.0", "5.0">>}

InterFiles ==
    {<<>>} \cup
    {<<h>> \o rows : h \in EndmemberLines, rows \in SeqsUpTo(MatrixRows, MaxRows)}

XInit ==
    /\ x_lines \in InterFiles
    /\ endmembers = <<>>
    /\ interactions = <<>>
    /\ volume_line = -1
    /\ x_i = 0
    /\ x_pc = "start"

\* lines 118-136 (and 141): read the lines, the endmembers and the cutoff
ReadEndmembers ==
    /\ x_pc = "start"
    /\ IF x_lines = <<>>
       THEN /\ x_pc' = "done"
            /\ UNCHANGED <<endmembers, volume_line, x_i>>
       ELSE /\ endmembers' = At(x_lines, 0)
            /\ volume_line' = FindVolumeLine(x_lines)
            /\ x_i' = 1
            /\ x_pc' = "rows"
    /\ UNCHANGED <<x_lines, interactions, pvars, fvars, bvars>>

\* lines 142-158: one row of the matrix
ParseRow ==
    /\ x_pc = "rows"
    /\ x_i < RowLimit(Len(endmembers), volume_line)
    /\ interactions' = interactions \o RowStep(x_lines, endmembers, x_i)
    /\ x_i' = x_i + 1
    /\ UNCHANGED <<x_lines, endmembers, volume_line, x_pc, pvars, fvars, bvars>>

\* line 142: the range is exhausted
ParseReturn ==
    /\ x_pc = "rows"
    /\ x_i >= RowLimit(Len(endmembers), volume_line)
    /\ x_pc' = "done"
    /\ UNCHANGED <<x_lines, endmembers, interactions, volume_line, x_i, pvars, fvars, bvars>>

XNext == ReadEndmembers \/ ParseRow \/ ParseReturn

InitInter == XInit /\ PIdle /\ FIdle /\ BIdle

SpecInter == InitInter /\ [][XNext]_vars

(***************************************************************************)
(* Claims about PhaseInteraction.parse_file (SpecInter)                    *)
(***************************************************************************)
XRange(s) == {s[k] : k \in 1..Len(s)}

XHeader == At(x_lines, 0)

XN == Len(XHeader)

NoMarker == \A k \in 1..Len(x_lines) : ~HasVolume(x_lines[k])

\* index of the first line holding the marker, else the number of lines
Cutoff ==
    IF NoMarker THEN Len(x_lines)
    ELSE CHOOSE c \in 0..(Len(x_lines) - 1) :
            /\ HasVolume(At(x_lines, c))
            /\ \A d \in 0..(c - 1) : ~HasVolume(At(x_lines, d))

\* the entry of row r (file line r + 1) at column j is a float other than 0
Qualifies(r, j) ==
    /\ r + 1 < Len(x_lines)
    /\ j < Len(At(x_lines, r + 1))
    /\ IsFloat(At(At(x_lines, r + 1), j))
    /\ FloatOf(At(At(x_lines, r + 1), j)) # 0

TripleOf(r, j) == <<At(XHeader, r), At(XHeader, j), FloatOf(At(At(x_lines, r + 1), j))>>

UpperCells ==
    {c \in (0..(XN - 1)) \X (0..(XN - 1)) : c[1] < c[2] /\ Qualifies(c[1], c[2])}

\* C2: without a 'Volume' marker, the recorded triples are exactly (as a
\* multiset) the triples (e[r], e[j], W) of the entries with r < j < n of
\* row r that parse as a float W != 0: nothing from the diagonal or below,
\* and an unparsable token stops neither its row nor the later rows.
C2_ExactUpperTriples ==
    (x_pc = "done" /\ x_lines # <<>> /\ NoMarker) =>
        \A t \in XRange(interactions) \cup {TripleOf(c[1], c[2]) : c \in UpperCells} :
            Cardinality({k \in 1..Len(interactions) : interactions[k] = t})
                = Cardinality({c \in UpperCells : TripleOf(c[1], c[2]) = t})

\* three endmembers: row 0 has an unparsable token at column 1 and a nonzero
\* one at column 2, row 1 a nonzero lower and diagonal entry and a nonzero
\* upper one
C2_Witness ==
    /\ x_pc = "done"
    /\ x_lines = << <<"a", "b", "c">>, <<"0.0", "x", "5.0">>, <<"5.0", "5.0", "5.0">> >>
    /\ interactions = << <<"a", "c", 5>>, <<"b", "c", 5>> >>

\* the triples of row i (file line i), in column order
ExpectedRow(i) ==
    LET cols == SelectSeq([k \in 1..XN |-> k - 1],
                          LAMBDA j : i - 1 < j /\ Qualifies(i - 1, j))
    IN  [k \in 1..Len(cols) |-> TripleOf(i - 1, cols[k])]

RECURSIVE ExpectedRows(_, _)
ExpectedRows(i, last) ==
    IF i > last THEN <<>> ELSE ExpectedRow(i) \o ExpectedRows(i + 1, last)

\* min(n, c - 1), or 0 when the marker is on line 0
LastEnergyRow == IF Cutoff = 0 THEN 0 ELSE Min(XN, Cutoff - 1)

\* C7: with the first marker line at index c (c = number of lines when there
\* is none), the loop never works on a row at index >= c or > n, it ends
\* having worked on every row 1..min(n, c-1), and the triples are those of
\* these rows and of no other line (rows worked on so far: 1..x_i - 1).
C7_VolumeCutoff ==
    x_lines # <<>> =>
        /\ x_pc = "rows" => x_i - 1 <= LastEnergyRow
        /\ x_pc = "done" =>
            /\ x_i - 1 = LastEnergyRow
            /\ interactions = ExpectedRows(1, LastEnergyRow)

\* the marker is on line 2, which also holds numbers: row 1 is parsed, line 2
\* is not
C7_Witness ==
    /\ x_pc = "done"
    /\ x_lines = << <<"a", "b", "c">>, <<"0.0", "x", "5.0">>, <<"Volume", "5.0", "5.0">> >>
    /\ interactions = << <<"a", "c", 5>> >>

XPositions(id) == {k \in 0..(Len(endmembers) - 1) : At(endmembers, k) = id}

XTriplesOk ==
    /\ \A k \in 1..Len(interactions) :
        /\ interactions[k][1] # interactions[k][2]
        /\ \E p \in XPositions(interactions[k][1]), q \in XPositions(interactions[k][2]) : p < q
        /\ interactions[k][3] # 0
    /\ \A k, m \in 1..Len(interactions) :
        {interactions[k][1], interactions[k][2]} = {interactions[m][1], interactions[m][2]}
            => k = m

\* C8 as stated: for every file, at most one triple per unordered pair of
\* ids, memberA before memberB in the endmember list and never equal to it,
\* and no W = 0.
C8_Original == XTriplesOk

XDistinct == \A p, q \in 0..(Len(endmembers) - 1) : At(endmembers, p) = At(endmembers, q) => p = q

\* C8 amended: the same, for the files whose endmember line names no id
\* twice.
C8_DistinctIds == XDistinct => XTriplesOk

C8_Witness ==
    /\ x_pc = "done"
    /\ x_lines = << <<"a", "b", "c">>, <<"x", "0.0", "5.0">>, <<"5.0", "5.0", "5.0">> >>
    /\ interactions = << <<"a", "c", 5>>, <<"b", "c", 5>> >>

(***************************************************************************)
(* HeFESToParameter.parse_file                                             *)
(***************************************************************************)
\* lines 40-84
param_map ==
    <<"n_atoms", "Z", "mass", "T0", "F0", "V0", "K0", "K0_p", "K0K0_pp", "theta0",
      "debye_acoustic_2", "debye_acoustic_3", "sin_acoustic_1", "sin_acoustic_2",
      "sin_acoustic_3", "einstein_1", "weight_einstein_1", "einstein_2",
      "weight_einstein_2", "einstein_3", "weight_einstein_3", "einstein_4",
      "weight_einstein_4", "optic_upper", "optic_lower", "gamma0", "q0", "beta",
      "gammael0", "q2A2", "high_temp_approx", "BM_or_Vinet", "Einstein_or_Debye",
      "zero_point_pressure", "G0", "G0_p", "G0_T", "T_crit", "S_crit", "V_crit",
      "van_laar", "C12_p", "C44_p">>

\* ' '.join(parts): the tokens with one space between neighbours
RECURSIVE JoinSpace(_)
JoinSpace(parts) ==
    IF Len(parts) <= 1 THEN parts
    ELSE <<Head(parts), " ">> \o JoinSpace(Tail(parts))

\* lines 33-37: the attributes the header line sets
ParseHeader(lines) ==
    IF Len(lines) > 0 /\ Len(At(lines, 0)) >= 2
    THEN [formula_raw |-> At(lines, 0)[1], name |-> JoinSpace(Tail(At(lines, 0)))]
    ELSE <<>>

\* d[k] = v on a dict
Put(d, k, v) == (k :> v) @@ d

\* line 91: the quantity file line i is stored under
ParamKeyShifted(i) == param_map[IF i < Len(param_map) THEN i + 1 ELSE i]

ParamKey(i) == param_map[i]

\* lines 86-93: the loop over lines[1:], from line i on
RECURSIVE ParseParameters(_, _, _)
ParseParameters(lines, i, acc) ==
    IF i >= Len(lines) THEN acc
    ELSE LET parts == At(lines, i)
         IN  IF parts # <<>> /\ i \in DOMAIN param_map /\ IsFloat(parts[1])
             THEN ParseParameters(lines, i + 1, Put(acc, ParamKey(i), FloatOf(parts[1])))
             ELSE ParseParameters(lines, i + 1, acc)

\* parameter files: a header line and data lines.  Data line i holds one
\* number (1.0, 2.0, 3.0 in turn), but for at most MaxOdd lines that are
\* blank, start with a word, or hold a number followed by a word.
HeaderLines == {<<>>, <<"Fe_1">>, <<"Fe_1", "Iron">>, <<"Mg_2Si_1O_4", "Mg", "Olivine">>}

NumTokens == <<"1.0", "2.0", "3.0">>

OddLines == {<<>>, <<"abc", "7.0">>, <<"7.0", "abc">>}

MaxDataLines == 44

MaxOdd == 1

MaxHeadData == 1

PlainLine(i) == <<NumTokens[(i % 3) + 1]>>

\* the subsets of 1..n with at most k elements
RECURSIVE SubsetsUpTo(_, _)
SubsetsUpTo(n, k) ==
    IF n = 0 \/ k = 0 THEN {{}}
    ELSE SubsetsUpTo(n - 1, k) \cup {T \cup {n} : T \in SubsetsUpTo(n - 1, k - 1)}

DataLines(L, odd) == [i \in 1..L |-> IF i \in DOMAIN odd THEN odd[i] ELSE PlainLine(i)]

PInit ==
    /\ \/ p_lines = <<>>
       \/ \E h \in HeaderLines, L \in 0..MaxHeadData :
            p_lines = <<h>> \o DataLines(L, <<>>)
       \/ \E L \in 0..MaxDataLines :
            \E pos \in SubsetsUpTo(L, MaxOdd) :
                \E odd \in [pos -> OddLines] :
                    p_lines = <<<<"Fe_1", "Iron">>>> \o DataLines(L, odd)
    /\ p_attrs = <<>>
    /\ parameters = <<>>
    /\ p_pc = "call"

\* lines 27-93
ParseFile ==
    /\ p_pc = "call"
    /\ p_attrs' = ParseHeader(p_lines)
    /\ parameters' = ParseParameters(p_lines, 1, <<>>)
    /\ p_pc' = "done"
    /\ UNCHANGED <<p_lines, xvars, fvars, bvars>>

PNext == ParseFile

InitParam == PInit /\ XIdle /\ FIdle /\ BIdle

SpecParam == InitParam /\ [][PNext]_vars

(***************************************************************************)
(* Claims about HeFESToParameter.parse_file (SpecParam)                    *)
(***************************************************************************)
PHeader == IF p_lines = <<>> THEN <<>> ELSE At(p_lines, 0)

\* the tokens after the first, one space between neighbours
DisplayName(parts) ==
    [k \in 1..(2 * (Len(parts) - 1) - 1) |->
        IF k % 2 = 1 THEN parts[(k + 1) \div 2 + 1] ELSE " "]

\* C4 as stated: formulaRaw is the first token of line 0 and displayName the
\* other tokens joined by single spaces; a field with no token is empty (not
\* set); a header line with no data lines gives no values.
C4_HeaderFields ==
    p_pc = "done" =>
        /\ IF Len(PHeader) >= 1
           THEN "formula_raw" \in DOMAIN p_attrs /\ p_attrs["formula_raw"] = PHeader[1]
           ELSE "formula_raw" \notin DOMAIN p_attrs
        /\ IF Len(PHeader) >= 2
           THEN "name" \in DOMAIN p_attrs /\ p_attrs["name"] = DisplayName(PHeader)
           ELSE "name" \notin DOMAIN p_attrs
        /\ Len(p_lines) = 1 => DOMAIN parameters = {}

\* line i holds a number first
PNumeric(i) ==
    /\ i < Len(p_lines)
    /\ At(p_lines, i) # <<>>
    /\ IsFloat(At(p_lines, i)[1])

\* C5: quantity number i of the table is present exactly when file line i
\* (1 <= i <= 43) exists and starts with a number, and then holds that
\* number, whatever the other lines are; nothing else is stored.
C5_PositionalBinding ==
    p_pc = "done" =>
        /\ \A i \in 1..43 :
            /\ param_map[i] \in DOMAIN parameters <=> PNumeric(i)
            /\ PNumeric(i) => parameters[param_map[i]] = FloatOf(At(p_lines, i)[1])
        /\ Cardinality(DOMAIN parameters) = Cardinality({i \in 1..43 : PNumeric(i)})

\* 45 lines; line 5 (F0) starts with a word: F0 alone is absent, line 6 is
\* still V0, line 43 is C44_p
C5_Witness ==
    /\ p_pc = "done"
    /\ Len(p_lines) = 45
    /\ At(p_lines, 5) = <<"abc", "7.0">>
    /\ "F0" \notin DOMAIN parameters
    /\ "T0" \in DOMAIN parameters /\ parameters["T0"] = 2
    /\ "V0" \in DOMAIN parameters /\ parameters["V0"] = 1
    /\ "C44_p" \in DOMAIN parameters /\ parameters["C44_p"] = 2
    /\ Cardinality(DOMAIN parameters) = 42

(***************************************************************************)
(* format_formula.  A string is a sequence of one-character strings.       *)
(***************************************************************************)
IsUpper(c) == c \in {"A", "F", "M", "N", "O", "S"}

IsLower(c) == c \in {"a", "e", "g", "i", "l"}

IsDigit(c) == c \in {"0", "1", "2", "3", "4", "5", "6", "7", "8", "9"}

\* Python's s[a:b]
Slice(s, a, b) == SubSeq(s, a + 1, b)

\* str.strip() on a leading and trailing run of spaces
RECURSIVE LStrip(_)
LStrip(s) == IF s # <<>> /\ Head(s) = " " THEN LStrip(Tail(s)) ELSE s

RECURSIVE RStrip(_)
RStrip(s) == IF s # <<>> /\ s[Len(s)] = " " THEN RStrip(SubSeq(s, 1, Len(s) - 1)) ELSE s

Strip(s) == RStrip(LStrip(s))

\* \d* at index k: the number of digits
RECURSIVE DigitRun(_, _)
DigitRun(s, k) == IF k < Len(s) /\ IsDigit(At(s, k)) THEN 1 + DigitRun(s, k + 1) ELSE 0

\* \d*\.?\d* at index k: the length matched (it always matches)
OptNumberLen(s, k) ==
    LET d1 == DigitRun(s, k)
        dot == IF k + d1 < Len(s) /\ At(s, k + d1) = "." THEN 1 ELSE 0
    IN  d1 + dot + DigitRun(s, k + d1 + dot)

\* \d+\.?\d* at index k: the length matched, 0 when there is no match
NumberLen(s, k) == IF DigitRun(s, k) = 0 THEN 0 ELSE OptNumberLen(s, k)

\* line 192: an inner element's count is dropped
InnerCountDropped(count) == count = <<>> \/ count = <<"1">>

\* line 201: a mixed site's count is rendered
SiteCountShown(count_val) == count_val # <<"1">>

\* line 221: a single-element site's count is rendered
ElemCountShownAlways(count_val) == count_val # <<>>

ElemCountShown(count_val) == count_val # <<>> /\ count_val # <<"1">>

\* lines 188-195: finditer over the site content from index p on, joined
RECURSIVE SiteParsed(_, _)
SiteParsed(site_str, p) ==
    IF p >= Len(site_str) THEN <<>>
    ELSE IF ~IsUpper(At(site_str, p)) THEN SiteParsed(site_str, p + 1)
    ELSE LET e == IF p + 1 < Len(site_str) /\ IsLower(At(site_str, p + 1))
                  THEN p + 2 ELSE p + 1
             q == IF e < Len(site_str) /\ At(site_str, e) = "_" THEN e + 1 ELSE e
             n == OptNumberLen(site_str, q)
             elem == Slice(site_str, p, e)
             count == Slice(site_str, q, q + n)
         IN  (IF InnerCountDropped(count) THEN elem ELSE elem \o count)
                 \o SiteParsed(site_str, q + n)

\* lines 179-181: the index of the first ')' from k on, else len(formula)
RECURSIVE FindClose(_, _)
FindClose(s, k) == IF k < Len(s) /\ At(s, k) # ")" THEN FindClose(s, k + 1) ELSE k

\* lines 176-203: the strings appended and the new i
MixedSite(s, i) ==
    LET close == FindClose(s, i + 1)
        i1 == IF close < Len(s) THEN close + 1 ELSE close
        site == <<"(">> \o SiteParsed(Slice(s, i + 1, close), 0) \o <<")">>
        \* re.match(r'_?(\d+\.?\d*)', formula[i:])
        start == IF i1 < Len(s) /\ At(s, i1) = "_" THEN i1 + 1 ELSE i1
        n == NumberLen(s, start)
        count_val == Slice(s, start, start + n)
    IN  IF n > 0
        THEN [i |-> start + n,
              appended |-> IF SiteCountShown(count_val) THEN <<site, count_val>> ELSE <<site>>]
        ELSE [i |-> i1, appended |-> <<site>>]

\* lines 205-222: the strings appended and the new i
SingleSite(s, i) ==
    LET e == IF i + 1 < Len(s) /\ IsLower(At(s, i + 1)) THEN i + 2 ELSE i + 1
        q == IF e < Len(s) /\ At(s, e) = "_" THEN e + 1 ELSE e
        n == NumberLen(s, q)
        count_val == Slice(s, q, q + n)
        site == <<"(">> \o Slice(s, i, e) \o <<")">>
    IN  [i |-> q + n,
         appended |-> IF ElemCountShown(count_val) THEN <<site, count_val>> ELSE <<site>>]

\* ''.join(result)
RECURSIVE Join(_)
Join(strs) == IF strs = <<>> THEN <<>> ELSE Head(strs) \o Join(Tail(strs))

\* site notation: a site is an element with an optional _count, or a
\* parenthesized mixture of Element_count with an optional _count
Symbols == {<<"M">>, <<"M", "g">>}

Counts == {<<>>, <<"1">>, <<"2">>, <<"1", "2">>}

El(sym, cnt) == [sym |-> sym, cnt |-> cnt]

SimpleSites == {[mixed |-> FALSE, elems |-> <<El(y, <<>>)>>, cnt |-> c] : y \in Symbols, c \in Counts}

Mixtures ==
    { <<El(<<"M">>, <<"1">>)>>,
      <<El(<<"M", "g">>, <<"2">>)>>,
      <<El(<<"M">>, <<"2">>), El(<<"M", "g">>, <<"1">>)>>,
      <<El(<<"M", "g">>, <<"1">>), El(<<"M">>, <<"1">>)>>,
      <<El(<<"M">>, <<"1", "2">>), El(<<"M", "g">>, <<"1">>), El(<<"M">>, <<"2">>)>> }

MixedSites == {[mixed |-> TRUE, elems |-> m, cnt |-> c] : m \in Mixtures, c \in Counts}

MaxSites == 2

\* the three formulas of the docstring that the claim quotes
Simple(sym, cnt) == [mixed |-> FALSE, elems |-> <<El(sym, <<>>)>>, cnt |-> cnt]

Examples ==
    { <<Simple(<<"M", "g">>, <<"2">>), Simple(<<"S", "i">>, <<"1">>), Simple(<<"O">>, <<"4">>)>>,
      <<Simple(<<"F", "e">>, <<"1">>)>>,
      <<Simple(<<"N", "a">>, <<"1">>), Simple(<<"M", "g">>, <<"2">>),
        [mixed |-> TRUE,
         elems |-> <<El(<<"A", "l">>, <<"5">>), El(<<"S", "i">>, <<"1">>)>>,
         cnt |-> <<>>],
        Simple(<<"O">>, <<"1", "2">>)>> }

CountText(c) == IF c = <<>> THEN <<>> ELSE <<"_">> \o c

RECURSIVE ElemsText(_)
ElemsText(es) ==
    IF es = <<>> THEN <<>>
    ELSE Head(es).sym \o CountText(Head(es).cnt) \o ElemsText(Tail(es))

SiteText(site) ==
    IF site.mixed
    THEN <<"(">> \o ElemsText(site.elems) \o <<")">> \o CountText(site.cnt)
    ELSE site.elems[1].sym \o CountText(site.cnt)

RECURSIVE SitesText(_)
SitesText(ss) == IF ss = <<>> THEN <<>> ELSE SiteText(Head(ss)) \o SitesText(Tail(ss))

\* any other input: every string of at most MaxLen of these characters
TextChars == {"M", "g", "_", "(", ")", "1", "2", ".", " "}

MaxLen == 4

FInit ==
    /\ \/ \E ss \in SeqsUpTo(SimpleSites \cup MixedSites, MaxSites) \cup Examples :
            /\ f_sites = ss
            /\ f_notation = TRUE
            /\ f_raw = SitesText(ss)
       \/ \E t \in SeqsUpTo(TextChars, MaxLen) :
            /\ f_sites = <<>>
            /\ f_notation = FALSE
            /\ f_raw = t
    /\ formula = <<>>
    /\ f_i = 0
    /\ result = <<>>
    /\ f_ret = <<>>
    /\ f_pc = "call"

\* lines 171-173
FormatBegin ==
    /\ f_pc = "call"
    /\ formula' = Strip(f_raw)
    /\ result' = <<>>
    /\ f_i' = 0
    /\ f_pc' = "loop"
    /\ UNCHANGED <<f_raw, f_sites, f_notation, f_ret, xvars, pvars, bvars>>

\* lines 175-203: a mixed site
FormatMixed ==
    /\ f_pc = "loop"
    /\ f_i < Len(formula)
    /\ At(formula, f_i) = "("
    /\ f_i' = MixedSite(formula, f_i).i
    /\ result' = result \o MixedSite(formula, f_i).appended
    /\ UNCHANGED <<f_raw, f_sites, f_notation, formula, f_ret, f_pc, xvars, pvars, bvars>>

\* lines 204-222: a single-element site
FormatSingle ==
    /\ f_pc = "loop"
    /\ f_i < Len(formula)
    /\ At(formula, f_i) # "("
    /\ IsUpper(At(formula, f_i))
    /\ f_i' = SingleSite(formula, f_i).i
    /\ result' = result \o SingleSite(formula, f_i).appended
    /\ UNCHANGED <<f_raw, f_sites, f_notation, formula, f_ret, f_pc, xvars, pvars, bvars>>

\* lines 223-224: any other character
FormatSkip ==
    /\ f_pc = "loop"
    /\ f_i < Len(formula)
    /\ At(formula, f_i) # "("
    /\ ~IsUpper(At(formula, f_i))
    /\ f_i' = f_i + 1
    /\ UNCHANGED <<f_raw, f_sites, f_notation, formula, result, f_ret, f_pc, xvars, pvars, bvars>>

\* lines 174, 226
FormatReturn ==
    /\ f_pc = "loop"
    /\ f_i >= Len(formula)
    /\ f_ret' = Join(result)
    /\ f_pc' = "done"
    /\ UNCHANGED <<f_raw, f_sites, f_notation, formula, f_i, result, xvars, pvars, bvars>>

FNext == FormatBegin \/ FormatMixed \/ FormatSingle \/ FormatSkip \/ FormatReturn

InitFormula == FInit /\ XIdle /\ PIdle /\ BIdle

SpecFormula == InitFormula /\ [][FNext]_vars

(***************************************************************************)
(* Claim about format_formula (SpecFormula)                                *)
(***************************************************************************)
\* a count as the claim renders it: not at all when it is 1 or missing
Shown(c) == IF c = <<>> \/ c = <<"1">> THEN <<>> ELSE c

RECURSIVE ElemsShown(_)
ElemsShown(es) ==
    IF es = <<>> THEN <<>>
    ELSE Head(es).sym \o Shown(Head(es).cnt) \o ElemsShown(Tail(es))

\* one bracketed group per site, then the site's count
RECURSIVE Bracketed(_)
Bracketed(ss) ==
    IF ss = <<>> THEN <<>>
    ELSE <<"(">> \o ElemsShown(Head(ss).elems) \o <<")">> \o Shown(Head(ss).cnt)
            \o Bracketed(Tail(ss))

\* the scan index stays inside the string; the result of site notation
FormatOk ==
    /\ f_pc = "loop" => (f_i >= 0 /\ f_i <= Len(formula))
    /\ f_pc = "done" =>
        /\ f_i = Len(formula)
        /\ f_notation => (f_ret = Bracketed(f_sites) /\ \A k \in 1..Len(f_ret) : f_ret[k] # "_")

\* C9: for site notation the result is the bracketed groups of the sites in
\* order, each followed by its count unless that is 1 or missing, inner
\* counts kept after their symbol, and holds no underscore; for every input
\* the scan stays inside the string and every pass of the loop moves it
\* forward or returns, so it ends having returned a string.
C9_BracketedSites ==
    /\ []FormatOk
    /\ [][f_pc = "loop" => (f_i' > f_i \/ f_pc' = "done")]_vars

C9_Witness ==
    /\ f_pc = "done"
    /\ f_raw = <<"N", "a", "_", "1", "M", "g", "_", "2", "(", "A", "l", "_", "5",
                 "S", "i", "_", "1", ")", "O", "_", "1", "2">>
    /\ f_ret = <<"(", "N", "a", ")", "(", "M", "g", ")", "2", "(", "A", "l", "5",
                 "S", "i", ")", "(", "O", ")", "1", "2">>

(***************************************************************************)
(* create_xml_database and the add_* functions.  An XML element is a       *)
(* record of its tag, its attributes, its text and its children in order.  *)
(***************************************************************************)
E(tag, attrib, text, children) ==
    [tag |-> tag, attrib |-> attrib, text |-> text, children |-> children]

\* ET.SubElement(parent, ...): the parent with one more child
SubElement(parent, child) == [parent EXCEPT !.children = @ \o <<child>>]

\* dict.get(k, default)
Get(d, k, default) == IF k \in DOMAIN d THEN d[k] ELSE default

\* f"{x:.<decimals>f}<suffix>": x in fixed point, then the suffix
Fmt(x, decimals, suffix) == [x |-> x, decimals |-> decimals, suffix |-> suffix]

\* lines 522-527
add_let(name, unit, value) == E("let", [name |-> name, unit |-> unit], value, <<>>)

\* format_formula as a function: lines 174-226 from index i on
RECURSIVE FormatLoop(_, _)
FormatFrom(s, pass) == pass.appended \o FormatLoop(s, pass.i)

\* one pass of the while loop at index i: what it appends, and the next index
FormatPass(s, i) ==
    IF At(s, i) = "(" THEN MixedSite(s, i)
    ELSE IF IsUpper(At(s, i)) THEN SingleSite(s, i)
    ELSE [appended |-> <<>>, i |-> i + 1]

FormatLoop(s, i) == IF i >= Len(s) THEN <<>> ELSE FormatFrom(s, FormatPass(s, i))

format_formula(formula_raw) == Join(FormatLoop(Strip(formula_raw), 0))

\* the characters of the formula tokens of the model's files
Chars(tok) ==
    CASE tok = "Fe_1" -> <<"F", "e", "_", "1">>
      [] tok = "Mg_2Si_1O_4" -> <<"M", "g", "_", "2", "S", "i", "_", "1", "O", "_", "4">>

\* str.capitalize() on the mineral ids of the model's files
Capitalize(id) ==
    CASE id = "fo" -> "Fo"
      [] id = "fa" -> "Fa"
      [] id = "st" -> "St"
      [] id = "zz" -> "Zz"

RegularSolution == "EoS.Phases.RegularSolution, EoS.Core"

LandauModification == "EoS.DebyeModel.LandauModification, EoS.DebyeModel"

DebyeSolid == "EoS.DebyeModel.DebyeSolid, EoS.DebyeModel"

\* lines 476-514: key, emitted name, unit, decimals, suffix
QuantityLets ==
    << <<"F0", "F0", "J/mol", 3, "e3">>,
       <<"V0", "V0", "m^3/mol", 4, "e-6">>,
       <<"K0", "K0", "Pa", 5, "e9">>,
       <<"K0_p", "K0_p", "1", 5, "">>,
       <<"theta0", "theta0", "K", 4, "">>,
       <<"gamma0", "gamma0", "1", 5, "">>,
       <<"q0", "q0", "1", 5, "">>,
       <<"G0", "G0", "Pa", 1, "e9">>,
       <<"G0_p", "G0_p", "1", 5, "">>,
       <<"G0_T", "eta0", "1", 5, "">> >>

\* lines 476-514 from entry k of the table on
RECURSIVE AddQuantities(_, _)
AddQuantities(params, k) ==
    IF k > Len(QuantityLets) THEN <<>>
    ELSE LET q == QuantityLets[k]
         IN  (IF q[1] \in DOMAIN params
              THEN <<add_let(q[2], q[3], Fmt(params[q[1]], q[4], q[5]))>>
              ELSE <<>>) \o AddQuantities(params, k + 1)

\* line 442
NeedsLandauFromZero(T_crit) == T_crit >= 0

NeedsLandau(T_crit) == T_crit > 0

\* lines 468-514: the DebyeSolid element from its id, its blurb, the text of its
\* formula element and its quantity lets
solid(id, blurb, formula_text, lets) ==
    E("phase", [type |-> DebyeSolid, id |-> id], <<>>,
      <<E("blurb", <<>>, blurb, <<>>), E("formula", <<>>, formula_text, <<>>)>> \o lets)

\* lines 444-466: with a Landau transition the solid is the child of a
\* LandauModification element, without one it is the element itself
MineralElement(mineral_id, name, params, formula_text, lets) ==
    IF NeedsLandau(Get(params, "T_crit", 0))
    THEN E("phase", [type |-> LandauModification, id |-> <<mineral_id>>], <<>>,
           << E("blurb", <<>>, name, <<>>),
              add_let("TC0", "K", Fmt(Get(params, "T_crit", 0), 5, "")),
              add_let("SD", "J/mol/K", Fmt(Get(params, "S_crit", 0), 3, "")),
              add_let("VD", "m^3/mol", Fmt(Get(params, "V_crit", 0), 3, "e-6")),
              solid(<<mineral_id, "/nolandau">>, name \o <<" (no Landau)">>,
                    formula_text, lets) >>)
    ELSE solid(<<mineral_id>>, name, formula_text, lets)

\* lines 435-514.  mineral.formula_raw (line 474) raises AttributeError when
\* parse_file did not set it; the elements attached before that stay
\* attached.  Result: the element added to the parent, and whether it raised.
add_mineral_phase(mineral_id, mineral) ==
    [raised |-> "formula_raw" \notin DOMAIN mineral.attrs,
     elem |-> MineralElement(
                mineral_id,
                IF "name" \in DOMAIN mineral.attrs
                THEN mineral.attrs["name"]
                ELSE <<Capitalize(mineral_id)>>,
                mineral.parameters,
                IF "formula_raw" \in DOMAIN mineral.attrs
                THEN format_formula(Chars(mineral.attrs["formula_raw"]))
                ELSE <<>>,
                IF "formula_raw" \in DOMAIN mineral.attrs
                THEN AddQuantities(mineral.parameters, 1)
                ELSE <<>>)]

\* lines 302-369
phase_groups ==
    << [id |-> "ol", name |-> "Olivine", type |-> RegularSolution],
       [id |-> "opx", name |-> "Orthopyroxene", type |-> RegularSolution, allows_negative |-> TRUE],
       [id |-> "cpx", name |-> "Clinopyroxene", type |-> RegularSolution, allows_negative |-> TRUE],
       [id |-> "gt", name |-> "Garnet", type |-> RegularSolution, allows_negative |-> TRUE],
       [id |-> "pv", name |-> "Perovskite", type |-> RegularSolution],
       [id |-> "ppv", name |-> "Post-Perovskite", type |-> RegularSolution],
       [id |-> "sp", name |-> "Spinel", type |-> RegularSolution, solution_id |-> "sps"],
       [id |-> "wa", name |-> "Wadsleyite", type |-> RegularSolution],
       [id |-> "ri", name |-> "Ringwoodite", type |-> RegularSolution],
       [id |-> "plg", name |-> "Feldspar", type |-> RegularSolution],
       [id |-> "cf", name |-> "Ca-Ferrite", type |-> RegularSolution],
       [id |-> "mw", name |-> "Ferropericlase", type |-> RegularSolution],
       [id |-> "il", name |-> "Akimotoite", type |-> RegularSolution, allows_negative |-> TRUE],
       [id |-> "nal", name |-> "NAL Phase", type |-> RegularSolution],
       [id |-> "c2c", name |-> "HP-Clinopyroxene", type |-> RegularSolution] >>

\* lines 377-378
standalone_and_zz ==
    <<"st", "coes", "qtz", "capv", "ky", "neph", "fea", "fee", "feg", "wo", "pwo", "apbo",
      "lppv", "zz">>

standalone ==
    <<"st", "coes", "qtz", "capv", "ky", "neph", "fea", "fee", "feg", "wo", "pwo", "apbo",
      "lppv">>

\* lines 419-421: of the results of add_mineral_phase for the endmembers that
\* have a record, those up to and including the first that raised
UpToRaise(known, added) ==
    LET raising == {k \in 1..Len(known) : added[k].raised}
        last == IF raising = {} THEN Len(known)
                ELSE CHOOSE k \in raising : \A m \in raising : k <= m
    IN  [raised |-> IF raising = {} THEN "" ELSE known[last],
         elems |-> [k \in 1..last |-> added[k].elem]]

\* lines 419-421
AddEndmembers(known, mins) ==
    UpToRaise(known, [k \in 1..Len(known) |-> add_mineral_phase(known[k], mins[known[k]])])

\* lines 424-432
AddInteractions(triples) ==
    [k \in 1..Len(triples) |->
        E("interaction", [unit |-> "J/mol", value |-> Fmt(triples[k][3], 1, "e3")], <<>>,
          << E("phase", [ref |-> triples[k][1]], <<>>, <<>>),
             E("phase", [ref |-> triples[k][2]], <<>>, <<>>) >>)]

\* lines 403-432: the phase element from the endmembers added; the
\* interactions follow when no endmember raised
PhaseGroupElement(phase_id, phase_info, phase_data, members) ==
    [raised |-> members.raised,
     elem |-> E("phase",
                [type |-> phase_info.type, id |-> <<Get(phase_info, "solution_id", phase_id)>>],
                <<>>,
                <<E("blurb", <<>>, <<phase_info.name>>, <<>>)>>
                    \o (IF Get(phase_info, "allows_negative", FALSE)
                        THEN <<E("let", [name |-> "allows-negative-components"], "True", <<>>)>>
                        ELSE <<>>)
                    \o members.elems
                    \o (IF members.raised = ""
                        THEN AddInteractions(phase_data.interactions)
                        ELSE <<>>))]

\* lines 401-432.  Result: the phase element added to the root, and the id of
\* the endmember whose add_mineral_phase raised ("" when none did).
add_phase_group(phase_id, phase_info, phase_data, mins) ==
    PhaseGroupElement(phase_id, phase_info, phase_data,
        AddEndmembers(SelectSeq(phase_data.endmembers, LAMBDA e : e \in DOMAIN mins), mins))

\* PhaseInteraction(filepath): lines 109-158
RECURSIVE ParseRows(_, _, _, _)
ParseRows(lines, em, vl, i) ==
    IF i >= RowLimit(Len(em), vl) THEN <<>>
    ELSE RowStep(lines, em, i) \o ParseRows(lines, em, vl, i + 1)

PhaseInteraction(phase_id, lines) ==
    IF lines = <<>>
    THEN [phase_id |-> phase_id, endmembers |-> <<>>, interactions |-> <<>>]
    ELSE [phase_id |-> phase_id,
          endmembers |-> At(lines, 0),
          interactions |-> ParseRows(lines, At(lines, 0), FindVolumeLine(lines), 1)]

\* HeFESToParameter(filepath): lines 21-93
HeFESToParameter(mineral_id, lines) ==
    [mineral_id |-> mineral_id,
     attrs |-> ParseHeader(lines),
     parameters |-> ParseParameters(lines, 1, <<>>)]

\* the parameter files of the model: no line at all, a header of one token,
\* a header alone, ten data lines, and 43 data lines whose line 38 (T_crit)
\* is the given one
FileWithTcrit(line) == <<<<"Mg_2Si_1O_4", "Mg", "Olivine">>>> \o DataLines(43, 38 :> line)

EmptyFile == <<>>

OneTokenFile == <<<<"Fe_1">>>>

HeaderFile == <<<<"Fe_1", "Iron">>>>

ShortFile == <<<<"Fe_1", "Iron">>>> \o DataLines(10, <<>>)

MineralFiles(file) ==
    CASE file = "fo" -> {EmptyFile, OneTokenFile, HeaderFile, FileWithTcrit(<<"800.0">>),
                         FileWithTcrit(<<"0.0">>), FileWithTcrit(<<"-800.0">>),
                         FileWithTcrit(<<"abc">>)}
      [] file = "fa" -> {FileWithTcrit(<<"3.0">>), FileWithTcrit(<<"0.0">>)}
      [] file = "st" -> {EmptyFile, OneTokenFile, ShortFile, FileWithTcrit(<<"800.0">>)}
      [] file = "zz.txt" -> {EmptyFile, FileWithTcrit(<<"800.0">>)}
      [] file = "changelog" -> {<<<<"2023", "parameters", "updated">>>>}

PhaseFiles(file) ==
    CASE file = "ol" -> { EmptyFile,
                          <<<<>>, <<"0.0", "5.0">>>>,
                          <<<<"fo", "fa">>, <<"0.0", "5.0">>, <<"5.0", "0.0">>>>,
                          <<<<"fo", "qq">>, <<"0.0", "5.0">>>> }
      [] file = "sp" -> { <<<<"sp", "fa">>, <<"0.0", "5.0">>>> }
      [] file = "xx" -> { <<<<"zz", "fo">>, <<"0.0", "5.0">>>> }

\* Path(filepath).stem
Stem(file) == IF file = "zz.txt" THEN "zz" ELSE file

\* lines 247-248
Excluded == {"changelog", "README.md", "out", ".gitignore"}

BInit ==
    /\ \E present \in SUBSET {"fo", "fa", "st", "zz.txt"} :
        \E fo \in MineralFiles("fo"), fa \in MineralFiles("fa"),
           st \in MineralFiles("st"), zz \in MineralFiles("zz.txt"),
           log \in MineralFiles("changelog") :
            param_dir = [f \in present \cup {"changelog"} |->
                            CASE f = "fo" -> fo
                              [] f = "fa" -> fa
                              [] f = "st" -> st
                              [] f = "zz.txt" -> zz
                              [] f = "changelog" -> log]
    /\ \/ phase_dir = [exists |-> FALSE, files |-> <<>>]
       \/ \E present \in SUBSET {"ol", "sp", "xx"} :
            \E ol \in PhaseFiles("ol"), sp \in PhaseFiles("sp"), xx \in PhaseFiles("xx") :
                phase_dir = [exists |-> TRUE,
                             files |-> [f \in present |->
                                            CASE f = "ol" -> ol
                                              [] f = "sp" -> sp
                                              [] f = "xx" -> xx]]
    /\ minerals = <<>>
    /\ phases = <<>>
    /\ root = <<>>
    /\ b_group = 1
    /\ b_alone = 1
    /\ b_raised = ""
    /\ output_file = <<>>
    /\ b_pc = "minerals"

\* lines 243-253
ReadMinerals ==
    /\ b_pc = "minerals"
    /\ minerals' = [id \in {Stem(f) : f \in DOMAIN param_dir \ Excluded} |->
                        HeFESToParameter(id, param_dir[CHOOSE f \in DOMAIN param_dir \ Excluded :
                                                            Stem(f) = id])]
    /\ b_pc' = "phases"
    /\ UNCHANGED <<param_dir, phase_dir, phases, root, b_group, b_alone, b_raised,
                   output_file, xvars, pvars, fvars>>

\* lines 255-266
ReadPhases ==
    /\ b_pc = "phases"
    /\ phases' =
        IF phase_dir.exists
        THEN [id \in {f \in DOMAIN phase_dir.files :
                        PhaseInteraction(Stem(f), phase_dir.files[f]).endmembers # <<>>} |->
                    PhaseInteraction(Stem(id), phase_dir.files[id])]
        ELSE <<>>
    /\ b_pc' = "root"
    /\ UNCHANGED <<param_dir, phase_dir, minerals, root, b_group, b_alone, b_raised,
                   output_file, xvars, pvars, fvars>>

\* lines 268-300
CreateRoot ==
    /\ b_pc = "root"
    /\ root' = E("module", [xmlns |-> "http://chust.org/eos", id |-> "SLB24"], <<>>,
                 << E("blurb", <<>>, <<"Thermodynamic dataset">>, <<>>),
                    add_let("T0", "K", "300.0"),
                    E("let", [name |-> "allows-negative-components"], "False", <<>>),
                    E("let", [name |-> "excludes-endmember-configuration-entropy"], "False", <<>>),
                    E("let", [name |-> "transparent-fallback"], "True", <<>>) >>)
    /\ b_pc' = "groups"
    /\ UNCHANGED <<param_dir, phase_dir, minerals, phases, b_group, b_alone, b_raised,
                   output_file, xvars, pvars, fvars>>

\* line 373: the entries of phase_groups from index k on that have a table
GroupsLeft(k) == {j \in k..Len(phase_groups) : phase_groups[j].id \in DOMAIN phases}

\* lines 372-374: the loop up to and including the next phase group added
AddPhaseGroup ==
    /\ b_pc = "groups"
    /\ GroupsLeft(b_group) # {}
    /\ \E k \in GroupsLeft(b_group) :
        /\ \A m \in GroupsLeft(b_group) : k <= m
        /\ \E g \in {add_phase_group(phase_groups[k].id, phase_groups[k],
                                      phases[phase_groups[k].id], minerals)} :
           /\ root' = SubElement(root, g.elem)
           /\ b_raised' = g.raised
           /\ b_group' = k + 1
           /\ b_pc' = IF g.raised # "" THEN "raised" ELSE "groups"
    /\ UNCHANGED <<param_dir, phase_dir, minerals, phases, b_alone, output_file,
                   xvars, pvars, fvars>>

\* line 372: no entry is left
GroupsDone ==
    /\ b_pc = "groups"
    /\ GroupsLeft(b_group) = {}
    /\ b_pc' = "standalone"
    /\ UNCHANGED <<param_dir, phase_dir, minerals, phases, root, b_group, b_alone, b_raised,
                   output_file, xvars, pvars, fvars>>

\* line 380: the entries of standalone from index k on that have a record
AloneLeft(k) == {j \in k..Len(standalone) : standalone[j] \in DOMAIN minerals}

\* lines 379-381 and 517-519: the loop up to and including the next mineral added
AddStandaloneMineral ==
    /\ b_pc = "standalone"
    /\ AloneLeft(b_alone) # {}
    /\ \E k \in AloneLeft(b_alone) :
        /\ \A m \in AloneLeft(b_alone) : k <= m
        /\ \E one \in {add_mineral_phase(standalone[k], minerals[standalone[k]])} :
           /\ root' = SubElement(root, one.elem)
           /\ b_raised' = IF one.raised THEN standalone[k] ELSE ""
           /\ b_alone' = k + 1
           /\ b_pc' = IF one.raised THEN "raised" ELSE "standalone"
    /\ UNCHANGED <<param_dir, phase_dir, minerals, phases, b_group, output_file,
                   xvars, pvars, fvars>>

\* line 379: no entry is left
StandaloneDone ==
    /\ b_pc = "standalone"
    /\ AloneLeft(b_alone) = {}
    /\ b_pc' = "write"
    /\ UNCHANGED <<param_dir, phase_dir, minerals, phases, root, b_group, b_alone, b_raised,
                   output_file, xvars, pvars, fvars>>

\* lines 383-398: the tree is serialized and written
WriteOutput ==
    /\ b_pc = "write"
    /\ output_file' = Append(output_file, root)
    /\ b_pc' = "done"
    /\ UNCHANGED <<param_dir, phase_dir, minerals, phases, root, b_group, b_alone, b_raised,
                   xvars, pvars, fvars>>

BNext ==
    \/ ReadMinerals
    \/ ReadPhases
    \/ CreateRoot
    \/ AddPhaseGroup
    \/ GroupsDone
    \/ AddStandaloneMineral
    \/ StandaloneDone
    \/ WriteOutput

InitBuild == BInit /\ XIdle /\ PIdle /\ FIdle

Spec == InitBuild /\ [][BNext]_vars

(***************************************************************************)
(* Claims about create_xml_database.                                       *)
(***************************************************************************)
\* the root element exists
Built == b_pc \in {"groups", "standalone", "write", "done", "raised"}

\* the elements added to the root after its blurb and its four lets
Added == IF Built THEN SubSeq(root.children, 6, Len(root.children)) ELSE <<>>

IsGroupNode(e) == e.attrib.type = RegularSolution

\* the positions of the children of e that have the tag
WithTag(e, tag) == {k \in 1..Len(e.children) : e.children[k].tag = tag}

\* the ids of the mineral-phase children of a phase-group node
ChildIds(g) == {g.children[k].attrib.id[1] : k \in WithTag(g, "phase")}

\* the ids the interaction nodes of a phase-group node refer to
RefIds(g) ==
    UNION {{g.children[k].children[1].attrib.ref, g.children[k].children[2].attrib.ref} :
            k \in WithTag(g, "interaction")}

\* C1: in every phase-group node of the document, every id an interaction
\* node refers to is the id of a mineral-phase child of that same node.
C1_RefsAreChildren ==
    \A i \in 1..Len(Added) : IsGroupNode(Added[i]) => RefIds(Added[i]) \subseteq ChildIds(Added[i])

\* C3: once the directories are read the run never raises during assembly,
\* whatever was parsed (empty files and partial records included), and it
\* ends having written the document exactly once.
C3_AlwaysWrites ==
    /\ b_pc # "raised"
    /\ Len(output_file) <= 1
    /\ b_pc = "done" => Len(output_file) = 1

TagsOf(e) == [k \in 1..Len(e.children) |-> e.children[k].tag]

LetNames(e) == {e.children[k].attrib.name : k \in WithTag(e, "let")}

QuantityNames == {QuantityLets[k][2] : k \in 1..Len(QuantityLets)}

\* a base-model node: its blurb, then its formula, then quantity lets only
BaseNode(e, id) ==
    /\ e.attrib.type = DebyeSolid
    /\ e.attrib.id = id
    /\ Len(e.children) >= 2
    /\ e.children[1].tag = "blurb"
    /\ e.children[2].tag = "formula"
    /\ \A k \in 3..Len(e.children) : e.children[k].tag = "let"
    /\ LetNames(e) \subseteq QuantityNames

\* the node emitted for mineral m has the structure its T_crit asks for
MineralNodeOk(e) ==
    LET m == e.attrib.id[1]
        params == minerals[m].parameters
    IN  IF "T_crit" \in DOMAIN params /\ params["T_crit"] > 0
        THEN /\ e.attrib.type = LandauModification
             /\ e.attrib.id = <<m>>
             /\ TagsOf(e) = <<"blurb", "let", "let", "let", "phase">>
             /\ e.children[2].attrib.name = "TC0"
             /\ e.children[3].attrib.name = "SD"
             /\ e.children[4].attrib.name = "VD"
             /\ BaseNode(e.children[5], <<m, "/nolandau">>)
        ELSE BaseNode(e, <<m>>)

\* C6: every mineral node of the document, in a phase group or standalone, is
\* an outer Landau node with id = mineral id carrying TC0, SD and VD and
\* holding exactly one base-model node with id = mineral id + '/nolandau'
\* exactly when the record's T_crit is present and > 0, and else a single
\* base-model node with id = mineral id; the formula and the quantity lets
\* are on the base-model node only.
C6_LandauIffTcritPositive ==
    \A i \in 1..Len(Added) :
        IF IsGroupNode(Added[i])
        THEN \A k \in WithTag(Added[i], "phase") : MineralNodeOk(Added[i].children[k])
        ELSE MineralNodeOk(Added[i])

C6_Witness ==
    /\ b_pc = "done"
    /\ "ol" \in DOMAIN phases
    /\ phases["ol"].endmembers = <<"fo", "fa">>
    /\ {"fo", "fa"} \subseteq DOMAIN minerals
    /\ "T_crit" \in DOMAIN minerals["fo"].parameters
    /\ minerals["fo"].parameters["T_crit"] = 800
    /\ "T_crit" \in DOMAIN minerals["fa"].parameters
    /\ minerals["fa"].parameters["T_crit"] = 0
    /\ Added[1].children[2].attrib.type = LandauModification
    /\ Added[1].children[2].children[5].attrib.id = <<"fo", "/nolandau">>
    /\ Added[1].children[3].attrib.type = DebyeSolid
    /\ Added[1].children[3].attrib.id = <<"fa">>

\* lines 377-378: the ids of the fixed standalone list
StandaloneIds ==
    {"st", "coes", "qtz", "capv", "ky", "neph", "fea", "fee", "feg", "wo", "pwo", "apbo",
     "lppv"}

\* m is in the standalone list or an endmember of a phase group that is emitted
Referenced(m) ==
    \/ m \in StandaloneIds
    \/ \E g \in 1..Len(phase_groups) :
        /\ phase_groups[g].id \in DOMAIN phases
        /\ \E k \in 1..Len(phases[phase_groups[g].id].endmembers) :
                phases[phase_groups[g].id].endmembers[k] = m

\* some phase node at or below e has the id m, or refers to m
RECURSIVE Mentions(_, _)
Mentions(e, m) ==
    \/ /\ e.tag = "phase"
       /\ \/ "id" \in DOMAIN e.attrib /\ e.attrib.id[1] = m
          \/ "ref" \in DOMAIN e.attrib /\ e.attrib.ref = m
    \/ \E k \in 1..Len(e.children) : Mentions(e.children[k], m)

\* C10: a mineral with a parsed record whose id is in no emitted phase
\* group's endmember list and not in the standalone list has no node in the
\* document and is never the mineral at which the run raises.
C10_UnreferencedDropped ==
    Built => \A m \in DOMAIN minerals :
                ~Referenced(m) => (~Mentions(root, m) /\ b_raised # m)

C10_Witness ==
    /\ b_pc = "done"
    /\ Len(output_file) = 1
    /\ "zz" \in DOMAIN minerals
    /\ "formula_raw" \notin DOMAIN minerals["zz"].attrs
    /\ "xx" \in DOMAIN phases
    /\ ~Referenced("zz")
    /\ Len(Added) = 2
    /\ ~Mentions(output_file[1], "zz")

====
